---- MODULE Spec2Model ----
(***************************************************************************)
(* The game-state and deduction engine of src/game_engine.py (GameEngine): *)
(* solution selection and dealing, the suggestion/refutation protocol, the *)
(* possible-owner tracker, turn progression and accusation resolution.     *)
(* Player slots are indexed 0..n-1 as in the code (self.players[i]).       *)
(***************************************************************************)
EXTENDS Integers, Sequences, FiniteSets, TLC

VARIABLES solution, character, hand, current_room, active,
          possible_owners, suggestions, current_player_index,
          game_over, winner

vars == <<solution, character, hand, current_room, active,
          possible_owners, suggestions, current_player_index,
          game_over, winner>>

(* ----------------------------- bounds ---------------------------------- *)

\* longest suggestion history explored (len(self.suggestions)) by Spec
MaxSuggestions == 1

\* longest suggestion history explored by SpecDeep, where one suggestion
\* acts on what an earlier one left behind
MaxSuggestionsDeep == 2

\* longest player list handed to GameEngine by SetupSpec
MaxSetupPlayers == 3

(* ------------------------ the supplied board --------------------------- *)

\* Python's None
None == "None"

\* the solution-pool sentinel of possible_owners
CaseFile == "CaseFile"

\* player_names handed to GameEngine (ordered, unique)
player_order == <<"A", "B", "C">>

\* suspects / weapons / list(rooms.values()) handed to GameEngine
suspects == <<"S1">>
weapons == <<"W1", "W2">>
rooms == <<"R1", "R2">>

\* Character.start_room
start_room == [c \in {"S1"} |-> "R1"]

\* the adjacency dict: R1 has an edge to R2, R2 has no entry
adjacency == [r \in {"R1"} |-> <<"R2">>]

\* n = len(self.players)
n == Len(player_order)

Slots == 0 .. (n - 1)

\* the elements of a list
Range(s) == {s[i] : i \in 1 .. Len(s)}

\* all_cards = suspects + weapons + list(rooms.values())
all_cards == suspects \o weapons \o rooms

\* players[i].name
NameOf(i) == player_order[i + 1]

\* self.player_order.index(name): the first slot with that name
IndexOf(name) == CHOOSE i \in Slots :
                    /\ NameOf(i) = name
                    /\ \A j \in Slots : NameOf(j) = name => i <= j

(* ------------------------------ setup ---------------------------------- *)

\* list.remove(card): drops the first occurrence
RECURSIVE ListRemove(_, _)
ListRemove(s, card) ==
    IF s = <<>> THEN <<>>
    ELSE IF Head(s) = card THEN Tail(s)
    ELSE <<Head(s)>> \o ListRemove(Tail(s), card)

\* Deck as it would be if the loop over self.solution stopped before the room
DeckKeepsRoom(sol) == ListRemove(ListRemove(all_cards, sol[1]), sol[2])

\* the deck of _deal_cards before the shuffle: all cards minus the solution
Deck(sol) == ListRemove(ListRemove(ListRemove(all_cards, sol[1]), sol[2]), sol[3])

\* every order random.shuffle can leave the deck in
Shuffles(deck) ==
    {[i \in 1 .. Len(deck) |-> deck[f[i]]] : f \in Permutations(1 .. Len(deck))}

\* DealLoop as it would be if every card went to the first player
DealLoopFirstSlot(deck, i, hands) == [hands EXCEPT ![0] = @ \o deck]

\* for i, card in enumerate(deck): self.players[i % n].hand.append(card)
RECURSIVE DealLoop(_, _, _)
DealLoop(deck, i, hands) ==
    IF i >= Len(deck) THEN hands
    ELSE DealLoop(deck, i + 1,
                  [hands EXCEPT ![i % n] = Append(@, deck[i + 1])])

DealCards(deck) == DealLoop(deck, 0, [p \in Slots |-> <<>>])

\* the character loop of __init__: each player draws one of the characters
\* still available, players beyond the last character get none
RECURSIVE AssignCharacters(_, _)
AssignCharacters(i, available) ==
    IF i >= n THEN {<<>>}
    ELSE IF available # {}
         THEN UNION {{<<c>> \o rest : rest \in AssignCharacters(i + 1, available \ {c})}
                     : c \in available}
         ELSE {<<None>> \o rest : rest \in AssignCharacters(i + 1, available)}

\* choose_solution: one member of each category
choose_solution == {<<s, w, r>> : s \in Range(suspects), w \in Range(weapons),
                                  r \in Range(rooms)}

\* GameEngine.__init__
Init ==
    /\ solution \in choose_solution
    /\ \E chars \in AssignCharacters(0, Range(suspects)) :
          /\ character = [p \in Slots |-> chars[p + 1]]
          /\ current_room = [p \in Slots |->
                IF chars[p + 1] # None THEN start_room[chars[p + 1]] ELSE None]
    /\ \E deck \in Shuffles(Deck(solution)) : hand = DealCards(deck)
    /\ active = [p \in Slots |-> TRUE]
    /\ possible_owners = [c \in Range(all_cards) |-> Range(player_order) \cup {CaseFile}]
    /\ suggestions = <<>>
    /\ current_player_index = 0
    /\ game_over = FALSE
    /\ winner = None

(* ------------------------- handle_suggestion --------------------------- *)

\* Matches as it would be without the filter on the suggested cards
MatchesWholeHand(h, suspect, weapon, room) == h

\* matches = [c for c in player.hand if c in (suspect, weapon, room)]
Matches(h, suspect, weapon, room) ==
    SelectSeq(h, LAMBDA c : c \in {suspect, weapon, room})

\* Poll as it would be if the walk went against the seating order
RECURSIVE PollBackwards(_, _, _, _, _)
PollBackwards(idx, offset, suspect, weapon, room) ==
    IF offset >= n THEN <<>>
    ELSE IF Matches(hand[(idx + n - offset) % n], suspect, weapon, room) # <<>>
         THEN <<(idx + n - offset) % n>>
         ELSE PollBackwards(idx, offset + 1, suspect, weapon, room)

\* Poll as it would be if the walk stopped one player short
\* (range(1, n - 1))
RECURSIVE PollStopsShort(_, _, _, _, _)
PollStopsShort(idx, offset, suspect, weapon, room) ==
    IF offset >= n - 1 THEN <<>>
    ELSE IF Matches(hand[(idx + offset) % n], suspect, weapon, room) # <<>>
         THEN <<(idx + offset) % n>>
         ELSE PollStopsShort(idx, offset + 1, suspect, weapon, room)

\* Poll as it would be if players whose flag is false were passed over
RECURSIVE PollSkipsInactive(_, _, _, _, _)
PollSkipsInactive(idx, offset, suspect, weapon, room) ==
    IF offset >= n THEN <<>>
    ELSE IF /\ active[(idx + offset) % n]
            /\ Matches(hand[(idx + offset) % n], suspect, weapon, room) # <<>>
         THEN <<(idx + offset) % n>>
         ELSE PollSkipsInactive(idx, offset + 1, suspect, weapon, room)

\* for offset in range(1, n): <<slot>> of the first polled player with a
\* match (the break), <<>> when the loop runs out (the else branch)
RECURSIVE Poll(_, _, _, _, _)
Poll(idx, offset, suspect, weapon, room) ==
    IF offset >= n THEN <<>>
    ELSE IF Matches(hand[(idx + offset) % n], suspect, weapon, room) # <<>>
         THEN <<(idx + offset) % n>>
         ELSE Poll(idx, offset + 1, suspect, weapon, room)

\* Refuted as it would be if the shown card's set only lost the case file
RefutedExcludesCaseFile(owners, shown, name) ==
    [owners EXCEPT ![shown] = @ \ {CaseFile}]

\* Refuted as it would be if the refuter were also struck from every other
\* card's set
RefutedStrikesOthers(owners, shown, name) ==
    [c \in DOMAIN owners |-> IF c = shown THEN {name} ELSE owners[c] \ {name}]

\* Refuted as it would be if the refuter were added instead of assigned
RefutedAdds(owners, shown, name) == [owners EXCEPT ![shown] = @ \cup {name}]

\* self.possible_owners[shown] = {player.name}
Refuted(owners, shown, name) == [owners EXCEPT ![shown] = {name}]

\* Unrefuted as it would be if the loop covered the suspect and weapon only
UnrefutedSkipsRoom(owners, suspect, weapon, room) ==
    [c \in DOMAIN owners |->
        IF c \in {suspect, weapon} THEN {CaseFile} ELSE owners[c]]

\* for c in (suspect, weapon, room): self.possible_owners[c] = {"CaseFile"}
\* (a dict assignment: a card that is no key yet becomes one)
Unrefuted(owners, suspect, weapon, room) ==
    [c \in DOMAIN owners \cup {suspect, weapon, room} |->
        IF c \in {suspect, weapon, room} THEN {CaseFile} ELSE owners[c]]

SuggestionRecord(suggester, suspect, weapon, room, refuter, shown_card) ==
    [suggester |-> suggester, suspect |-> suspect, weapon |-> weapon,
     room |-> room, refuter |-> refuter, shown_card |-> shown_card]

\* handle_suggestion as it would be if the shown card were put down to the
\* suggester, who sees it, instead of the refuter
handle_suggestion_credits_suggester(suggester, suspect, weapon, room) ==
    LET idx == IndexOf(suggester)
        found == Poll(idx, 1, suspect, weapon, room)
        p == found[1]
    IN /\ IF found # <<>>
          THEN \E shown \in Range(Matches(hand[p], suspect, weapon, room)) :
                  /\ possible_owners' = Refuted(possible_owners, shown, suggester)
                  /\ suggestions' = Append(suggestions,
                        SuggestionRecord(suggester, suspect, weapon, room,
                                         NameOf(p), shown))
          ELSE /\ possible_owners' = Unrefuted(possible_owners, suspect, weapon, room)
               /\ suggestions' = Append(suggestions,
                     SuggestionRecord(suggester, suspect, weapon, room, None, None))
       /\ UNCHANGED <<solution, character, hand, current_room, active,
                      current_player_index, game_over, winner>>

\* handle_suggestion as it would be if only refuted suggestions were
\* recorded
handle_suggestion_drops_unrefuted(suggester, suspect, weapon, room) ==
    LET idx == IndexOf(suggester)
        found == Poll(idx, 1, suspect, weapon, room)
        p == found[1]
    IN /\ IF found # <<>>
          THEN \E shown \in Range(Matches(hand[p], suspect, weapon, room)) :
                  /\ possible_owners' = Refuted(possible_owners, shown, NameOf(p))
                  /\ suggestions' = Append(suggestions,
                        SuggestionRecord(suggester, suspect, weapon, room,
                                         NameOf(p), shown))
          ELSE /\ possible_owners' = Unrefuted(possible_owners, suspect, weapon, room)
               /\ UNCHANGED suggestions
       /\ UNCHANGED <<solution, character, hand, current_room, active,
                      current_player_index, game_over, winner>>

\* handle_suggestion as it would be if the refuter handed the shown card
\* over to the suggester
handle_suggestion_takes_card(suggester, suspect, weapon, room) ==
    LET idx == IndexOf(suggester)
        found == Poll(idx, 1, suspect, weapon, room)
        p == found[1]
    IN /\ IF found # <<>>
          THEN \E shown \in Range(Matches(hand[p], suspect, weapon, room)) :
                  /\ possible_owners' = Refuted(possible_owners, shown, NameOf(p))
                  /\ suggestions' = Append(suggestions,
                        SuggestionRecord(suggester, suspect, weapon, room,
                                         NameOf(p), shown))
                  /\ hand' = [hand EXCEPT ![p] = ListRemove(@, shown),
                                          ![idx] = Append(@, shown)]
          ELSE /\ possible_owners' = Unrefuted(possible_owners, suspect, weapon, room)
               /\ suggestions' = Append(suggestions,
                     SuggestionRecord(suggester, suspect, weapon, room, None, None))
               /\ UNCHANGED hand
       /\ UNCHANGED <<solution, character, current_room, active,
                      current_player_index, game_over, winner>>

handle_suggestion(suggester, suspect, weapon, room) ==
    /\ LET idx == IndexOf(suggester)
           found == Poll(idx, 1, suspect, weapon, room)
           p == found[1]
       IN IF found # <<>>
          THEN \E shown \in Range(Matches(hand[p], suspect, weapon, room)) :
                  /\ possible_owners' = Refuted(possible_owners, shown, NameOf(p))
                  /\ suggestions' = Append(suggestions,
                        SuggestionRecord(suggester, suspect, weapon, room,
                                         NameOf(p), shown))
          ELSE /\ possible_owners' = Unrefuted(possible_owners, suspect, weapon, room)
               /\ suggestions' = Append(suggestions,
                     SuggestionRecord(suggester, suspect, weapon, room, None, None))
    /\ UNCHANGED <<solution, character, hand, current_room, active,
                   current_player_index, game_over, winner>>

(* ----------------------------- next_player ----------------------------- *)

\* NextLoop as it would be without the test of the active flag
NextLoopNoSkip(i, original_index) == [index |-> (i + 1) % n, over |-> FALSE]

\* NextLoop as it would be if coming full circle ended the game whether or
\* not the player it started from is active
RECURSIVE NextLoopFullCircleOver(_, _)
NextLoopFullCircleOver(i, original_index) ==
    LET j == (i + 1) % n
    IN IF j = original_index
       THEN [index |-> j, over |-> TRUE, steps |-> 1]
       ELSE IF active[j] THEN [index |-> j, over |-> FALSE, steps |-> 1]
       ELSE [NextLoopFullCircleOver(j, original_index) EXCEPT !.steps = @ + 1]

\* NextLoop as it would be if the index were stepped against the seating
\* order
RECURSIVE NextLoopBackwards(_, _)
NextLoopBackwards(i, original_index) ==
    LET j == (i + n - 1) % n
    IN IF j = original_index /\ ~active[j]
       THEN [index |-> j, over |-> TRUE, steps |-> 1]
       ELSE IF active[j] THEN [index |-> j, over |-> FALSE, steps |-> 1]
       ELSE [NextLoopBackwards(j, original_index) EXCEPT !.steps = @ + 1]

\* NextLoop as it would be if a full circle returned without setting
\* game_over
RECURSIVE NextLoopNeverOver(_, _)
NextLoopNeverOver(i, original_index) ==
    LET j == (i + 1) % n
    IN IF j = original_index /\ ~active[j]
       THEN [index |-> j, over |-> FALSE, steps |-> 1]
       ELSE IF active[j] THEN [index |-> j, over |-> FALSE, steps |-> 1]
       ELSE [NextLoopNeverOver(j, original_index) EXCEPT !.steps = @ + 1]

\* the while loop of next_player, from index i with the index it started at;
\* yields the index it stops on, whether it set game_over, and how many
\* times its body ran
RECURSIVE NextLoop(_, _)
NextLoop(i, original_index) ==
    LET j == (i + 1) % n
    IN IF j = original_index /\ ~active[j]
       THEN [index |-> j, over |-> TRUE, steps |-> 1]
       ELSE IF active[j] THEN [index |-> j, over |-> FALSE, steps |-> 1]
       ELSE [NextLoop(j, original_index) EXCEPT !.steps = @ + 1]

\* next_player as it would be if game_over were assigned on every return
next_player_assigns_over ==
    LET r == NextLoop(current_player_index, current_player_index)
    IN /\ current_player_index' = r.index
       /\ game_over' = r.over
       /\ UNCHANGED <<solution, character, hand, current_room, active,
                      possible_owners, suggestions, winner>>

next_player ==
    LET r == NextLoop(current_player_index, current_player_index)
    IN /\ current_player_index' = r.index
       /\ game_over' = (game_over \/ r.over)
       /\ UNCHANGED <<solution, character, hand, current_room, active,
                      possible_owners, suggestions, winner>>

(* ------------------------------ moving --------------------------------- *)

\* get_possible_moves as it would be if every room could be reached from
\* anywhere
get_possible_moves_anywhere(p) == rooms

\* get_possible_moves
get_possible_moves(p) ==
    IF current_room[p] = None THEN <<>>
    ELSE IF current_room[p] \in DOMAIN adjacency THEN adjacency[current_room[p]]
    ELSE <<>>

move_player(p, room) ==
    /\ IF room \in Range(get_possible_moves(p))
       THEN current_room' = [current_room EXCEPT ![p] = room]
       ELSE UNCHANGED current_room
    /\ UNCHANGED <<solution, character, hand, active, possible_owners,
                   suggestions, current_player_index, game_over, winner>>

(* -------------------------- handle_accusation -------------------------- *)

\* Correct as it would be with credit for a matching suspect and weapon
CorrectIgnoresRoom(suspect, weapon, room) ==
    suspect = solution[1] /\ weapon = solution[2]

\* correct = suspect == solution_suspect and weapon == ... and room == ...
\* (also the value handle_accusation returns)
Correct(suspect, weapon, room) ==
    suspect = solution[1] /\ weapon = solution[2] /\ room = solution[3]

\* handle_accusation as it would be if an incorrect accusation also passed
\* the turn on
handle_accusation_ends_turn(p, suspect, weapon, room) ==
    /\ IF Correct(suspect, weapon, room)
       THEN /\ game_over' = TRUE
            /\ winner' = NameOf(p)
            /\ UNCHANGED <<active, current_player_index>>
       ELSE /\ active' = [active EXCEPT ![p] = FALSE]
            /\ current_player_index' = (current_player_index + 1) % n
            /\ UNCHANGED <<game_over, winner>>
    /\ UNCHANGED <<solution, character, hand, current_room, possible_owners,
                   suggestions>>

\* handle_accusation as it would be if the flag were assigned from the result
\* (player.active = correct)
handle_accusation_assigns_flag(p, suspect, weapon, room) ==
    /\ IF Correct(suspect, weapon, room)
       THEN /\ game_over' = TRUE
            /\ winner' = NameOf(p)
       ELSE UNCHANGED <<game_over, winner>>
    /\ active' = [active EXCEPT ![p] = Correct(suspect, weapon, room)]
    /\ UNCHANGED <<solution, character, hand, current_room, possible_owners,
                   suggestions, current_player_index>>

handle_accusation(p, suspect, weapon, room) ==
    /\ IF Correct(suspect, weapon, room)
       THEN /\ game_over' = TRUE
            /\ winner' = NameOf(p)
            /\ UNCHANGED active
       ELSE /\ active' = [active EXCEPT ![p] = FALSE]
            /\ UNCHANGED <<game_over, winner>>
    /\ UNCHANGED <<solution, character, hand, current_room, possible_owners,
                   suggestions, current_player_index>>

(* --------------------------- the engine -------------------------------- *)

SuggestUpTo(limit) ==
    /\ Len(suggestions) < limit
    /\ \E s \in Range(player_order), su \in Range(suspects),
          w \in Range(weapons), r \in Range(rooms) :
          handle_suggestion(s, su, w, r)

Suggest == SuggestUpTo(MaxSuggestions)

SuggestDeep == SuggestUpTo(MaxSuggestionsDeep)

Accuse == \E p \in Slots, su \in Range(suspects),
             w \in Range(weapons), r \in Range(rooms) :
             handle_accusation(p, su, w, r)

Move == \E p \in Slots, r \in Range(rooms) : move_player(p, r)

Advance == next_player

Next == Suggest \/ Accuse \/ Move \/ Advance

Spec == Init /\ [][Next]_vars

NextDeep == SuggestDeep \/ Accuse \/ Move \/ Advance

SpecDeep == Init /\ [][NextDeep]_vars

(* ------------- the engine called with cards it was not given ------------ *)

\* a card that is in none of the lists handed to GameEngine
ForeignCard == "X1"

\* the arguments a caller can pass for one category
AnyOf(category) == Range(category) \cup {ForeignCard}

SuggestAny ==
    /\ Len(suggestions) < MaxSuggestions
    /\ \E s \in Range(player_order), su \in AnyOf(suspects),
          w \in AnyOf(weapons), r \in AnyOf(rooms) :
          handle_suggestion(s, su, w, r)

AccuseAny == \E p \in Slots, su \in AnyOf(suspects),
                w \in AnyOf(weapons), r \in AnyOf(rooms) :
                handle_accusation(p, su, w, r)

NextAnyInput == SuggestAny \/ AccuseAny \/ Move \/ Advance

SpecAnyInput == Init /\ [][NextAnyInput]_vars

(* --------------- GameEngine(...) called with any arguments -------------- *)

\* the identities a player list is drawn from
SetupNames == {"A", "B"}

\* every player list of at most MaxSetupPlayers identities, repeats included
NameLists == UNION {[1 .. k -> SetupNames] : k \in 0 .. MaxSetupPlayers}

\* a category list cut short, down to the empty list
Prefixes(category) == {SubSeq(category, 1, k) : k \in 0 .. Len(category)}

\* the arguments of GameEngine.__init__
Configurations ==
    [player_names : NameLists, suspects : Prefixes(suspects),
     weapons : Prefixes(weapons), rooms : Prefixes(rooms)]

\* choose_solution for given lists; random.choice raises IndexError on an
\* empty list, so an empty category yields no solution
ChooseSolutionFrom(s, w, r) ==
    {<<a, b, c>> : a \in Range(s), b \in Range(w), c \in Range(r)}

\* the deck of _deal_cards for given cards
DeckFrom(cards, sol) ==
    ListRemove(ListRemove(ListRemove(cards, sol[1]), sol[2]), sol[3])

\* the dealing loop for k players (i % k)
RECURSIVE DealLoopAmong(_, _, _, _)
DealLoopAmong(deck, i, hands, k) ==
    IF i >= Len(deck) THEN hands
    ELSE DealLoopAmong(deck, i + 1,
                       [hands EXCEPT ![i % k] = Append(@, deck[i + 1])], k)

\* the character loop of __init__ for k players
RECURSIVE AssignAmong(_, _, _)
AssignAmong(k, i, available) ==
    IF i >= k THEN {<<>>}
    ELSE IF available # {}
         THEN UNION {{<<c>> \o rest : rest \in AssignAmong(k, i + 1, available \ {c})}
                     : c \in available}
         ELSE {<<None>> \o rest : rest \in AssignAmong(k, i + 1, available)}

\* no GameEngine instance exists
NoEngine ==
    /\ solution = <<>>
    /\ character = <<>>
    /\ hand = <<>>
    /\ current_room = <<>>
    /\ active = <<>>
    /\ possible_owners = <<>>
    /\ suggestions = <<>>
    /\ current_player_index = 0
    /\ game_over = FALSE
    /\ winner = None

\* GameEngine.__init__ returning an instance: it raises nothing, neither in
\* random.choice (an empty category) nor in i % n (no players and a deck that
\* is not empty)
Construct(cfg) ==
    /\ solution = <<>>
    /\ LET k == Len(cfg.player_names)
           cards == cfg.suspects \o cfg.weapons \o cfg.rooms
       IN \E sol \in ChooseSolutionFrom(cfg.suspects, cfg.weapons, cfg.rooms),
             chars \in AssignAmong(k, 0, Range(cfg.suspects)) :
             \E deck \in Shuffles(DeckFrom(cards, sol)) :
                /\ deck = <<>> \/ k > 0
                /\ solution' = sol
                /\ character' = [p \in 0 .. (k - 1) |-> chars[p + 1]]
                /\ current_room' = [p \in 0 .. (k - 1) |->
                      IF chars[p + 1] # None THEN start_room[chars[p + 1]] ELSE None]
                /\ hand' = DealLoopAmong(deck, 0, [p \in 0 .. (k - 1) |-> <<>>], k)
                /\ active' = [p \in 0 .. (k - 1) |-> TRUE]
                /\ possible_owners' =
                      [c \in Range(cards) |-> Range(cfg.player_names) \cup {CaseFile}]
                /\ suggestions' = <<>>
                /\ current_player_index' = 0
                /\ game_over' = FALSE
                /\ winner' = None

SetupNext == \E cfg \in Configurations : Construct(cfg)

SetupSpec == NoEngine /\ [][SetupNext]_vars

(* ----------------------- properties of the engine ---------------------- *)

\* how often a card occurs in a list
Count(s, card) == Cardinality({i \in 1 .. Len(s) : s[i] = card})

\* how often a card occurs in the hands of the slots below k
RECURSIVE CountInHands(_, _)
CountInHands(card, k) ==
    IF k = 0 THEN 0 ELSE Count(hand[k - 1], card) + CountInHands(card, k - 1)

Triple(rec) == {rec.suspect, rec.weapon, rec.room}

\* the slot holds one of the cards
Holds(p, cards) == \E i \in 1 .. Len(hand[p]) : hand[p][i] \in cards

\* some player other than the one in slot idx holds one of the cards
OtherHolds(idx, cards) == \E p \in Slots \ {idx} : Holds(p, cards)

SomeInactive == \E p \in Slots : ~active[p]

AllInactive == \A p \in Slots : ~active[p]

\* C1: every card of suspects + weapons + rooms is in exactly one place:
\* it is a solution card and in no hand, or it is in exactly one hand once.
C1_DeckPartition ==
    \A card \in Range(all_cards) :
        (IF card \in Range(solution) THEN 1 ELSE 0) + CountInHands(card, n) = 1

\* C1 witness: the partition is looked at after a suggestion, a move, an
\* incorrect accusation and an advance have all happened.
C1_Witness ==
    /\ suggestions # <<>>
    /\ SomeInactive
    /\ current_player_index # 0
    /\ \E p \in Slots : character[p] # None /\ current_room[p] # start_room[character[p]]

\* C2: in every recorded suggestion for which a player other than the
\* suggester holds a suggested card, the refuter is the first such player in
\* seating order after the suggester (wrapping), never the suggester.
C2_FirstRefuter ==
    \A k \in 1 .. Len(suggestions) :
        LET rec == suggestions[k]
            idx == IndexOf(rec.suggester)
        IN OtherHolds(idx, Triple(rec)) =>
              /\ rec.refuter # rec.suggester
              /\ \E offset \in 1 .. (n - 1) :
                    /\ rec.refuter = NameOf((idx + offset) % n)
                    /\ Holds((idx + offset) % n, Triple(rec))
                    /\ \A earlier \in 1 .. (offset - 1) :
                          ~Holds((idx + earlier) % n, Triple(rec))

\* C2 witness: a recorded suggestion that two players other than the
\* suggester could both have refuted.
C2_Witness ==
    \E k \in 1 .. Len(suggestions) :
        LET rec == suggestions[k]
            idx == IndexOf(rec.suggester)
        IN /\ rec.refuter # None
           /\ Cardinality({p \in Slots \ {idx} : Holds(p, Triple(rec))}) >= 2

\* the record the latest handle_suggestion returned
LastRecord == suggestions[Len(suggestions)]

\* C3: after a refuted handle_suggestion has returned, the possible-owner
\* set of the card it showed is exactly {refuter}.
C3_ShownOwner ==
    (suggestions # <<>> /\ LastRecord.refuter # None) =>
        possible_owners[LastRecord.shown_card] = {LastRecord.refuter}

\* C3 witness: handle_suggestion has returned a refuted record.
C3_Witness ==
    /\ suggestions # <<>>
    /\ LastRecord.refuter # None
    /\ LastRecord.shown_card # None

\* C4: after handle_suggestion has returned for a suggestion none of whose
\* cards is held by a player other than the suggester, the record has no
\* refuter and each suggested card's possible-owner set is {"CaseFile"}.
C4_NoRefuter ==
    (/\ suggestions # <<>>
     /\ ~OtherHolds(IndexOf(LastRecord.suggester), Triple(LastRecord))) =>
        /\ LastRecord.refuter = None
        /\ \A card \in Triple(LastRecord) : possible_owners[card] = {CaseFile}

\* C4 witness: handle_suggestion has returned for a suggestion that no other
\* player could refute, one of whose cards the suggester holds.
C4_Witness ==
    /\ suggestions # <<>>
    /\ ~OtherHolds(IndexOf(LastRecord.suggester), Triple(LastRecord))
    /\ Holds(IndexOf(LastRecord.suggester), Triple(LastRecord))
    /\ LastRecord.refuter = None

\* C5: in every record of the history shown_card is set exactly when
\* refuter is set, and then it is one of the three suggested cards and a
\* card of the refuter's hand.
C5_RecordShape ==
    \A k \in 1 .. Len(suggestions) :
        LET rec == suggestions[k]
        IN /\ (rec.shown_card # None) <=> (rec.refuter # None)
           /\ rec.shown_card # None =>
                 /\ rec.shown_card \in Triple(rec)
                 /\ rec.refuter \in Range(player_order)
                 /\ rec.shown_card \in Range(hand[IndexOf(rec.refuter)])

\* C5 witness: the history holds a record with a shown card.
C5_Witness ==
    \E k \in 1 .. Len(suggestions) :
        /\ suggestions[k].shown_card # None
        /\ suggestions[k].shown_card \in Range(hand[IndexOf(suggestions[k].refuter)])

\* C6: once game_over is true with a winner, no later step (in particular no
\* later handle_accusation) changes the winner.
C6_WinnerTerminal ==
    [][(game_over /\ winner # None) => winner' = winner]_vars

\* C7: when next_player returns, the current player is active, unless
\* every player is inactive and game_over is true.
C7_AdvanceLandsOnActive ==
    [][next_player =>
          \/ active'[current_player_index']
          \/ AllInactive' /\ game_over']_vars

\* C7 witness: the turn has advanced to an active player past an inactive
\* one.
C7_Witness ==
    /\ current_player_index # 0
    /\ active[current_player_index]
    /\ ~active[(current_player_index + n - 1) % n]
    /\ ~game_over

\* C8: an accusation made by a player whose flag is already false neither
\* sets game_over nor makes that player the winner.
C8_BarredAccuser ==
    [][\A p \in Slots :
          (~active[p] /\ \E su \in Range(suspects), w \in Range(weapons),
                            r \in Range(rooms) : handle_accusation(p, su, w, r))
          => (game_over' = game_over /\ winner' = winner)]_vars

\* C9: every flag starts true; a flag changes only from true to false and
\* only in an incorrect accusation by that player; every incorrect
\* accusation leaves the accuser's flag false.
C9_ActiveLifecycle ==
    /\ \A p \in Slots : active[p]
    /\ [][\A p \in Slots :
             /\ active'[p] # active[p] =>
                   /\ active[p] /\ ~active'[p]
                   /\ \E su \in Range(suspects), w \in Range(weapons),
                         r \in Range(rooms) :
                         ~Correct(su, w, r) /\ handle_accusation(p, su, w, r)
             /\ active'[p] =>
                   \A su \in Range(suspects), w \in Range(weapons),
                      r \in Range(rooms) :
                      Correct(su, w, r) \/ ~handle_accusation(p, su, w, r)]_vars

\* C9 witness: a player's flag is false after an incorrect accusation while
\* another player's flag is still true and the game goes on.
C9_Witness ==
    /\ SomeInactive
    /\ ~AllInactive
    /\ ~game_over

\* C10: no step adds an identity to a card's possible-owner set: the set
\* after the step is a subset of the set before it.
C10_OwnersShrink ==
    [][\A card \in Range(all_cards) :
          possible_owners'[card] \subseteq possible_owners[card]]_vars

\* where a card really is: "CaseFile" for a solution card, else the names of
\* the players whose hand contains it
TrueHolders(card) ==
    (IF card \in Range(solution) THEN {CaseFile} ELSE {})
    \cup {NameOf(p) : p \in {q \in Slots : card \in Range(hand[q])}}

\* C11: whenever a card's possible-owner set has exactly one element, that
\* element is the card's true holder: the player whose hand contains the
\* card, or "CaseFile" if and only if the card is a solution card.
C11_SingletonIsHolder ==
    \A card \in Range(all_cards) :
        Cardinality(possible_owners[card]) = 1 =>
            possible_owners[card] = TrueHolders(card)

\* C12: handle_accusation returns true exactly when suspect, weapon and room
\* all equal the solution's; when it returns true game_over is true and the
\* winner is the accuser, when it returns false the accuser's flag is false.
C12_AccusationOutcome ==
    /\ [](\A su \in Range(suspects), w \in Range(weapons), r \in Range(rooms) :
            Correct(su, w, r) <=>
               (su = solution[1] /\ w = solution[2] /\ r = solution[3]))
    /\ [][\A p \in Slots :
             /\ \/ game_over' /\ winner' = NameOf(p)
                \/ ~handle_accusation(p, solution[1], solution[2], solution[3])
             /\ \/ ~active'[p]
                \/ \A su \in Range(suspects), w \in Range(weapons),
                      r \in Range(rooms) :
                      \/ su = solution[1] /\ w = solution[2] /\ r = solution[3]
                      \/ ~handle_accusation(p, su, w, r)]_vars

\* C12 witness: one accusation has returned true and another, by a different
\* player and matching the solution in part only, has returned false.
C12_Witness ==
    /\ game_over
    /\ winner # None
    /\ \E p \in Slots : ~active[p] /\ NameOf(p) # winner

\* the destination is in the adjacency list of the room the player is in
Adjacent(p, room) ==
    /\ current_room[p] \in DOMAIN adjacency
    /\ room \in Range(adjacency[current_room[p]])

\* C13: move_player succeeds (room in get_possible_moves(player)) exactly
\* when the destination is in the adjacency list of the player's current
\* room; a move_player call that changes the state has such a destination
\* and leaves the player in it, so a call for any other destination, for a
\* player with no location or from a room with no edges changes nothing.
C13_MoveOnlyAdjacent ==
    /\ [](\A p \in Slots, room \in Range(rooms) :
            room \in Range(get_possible_moves(p)) <=> Adjacent(p, room))
    /\ [][\A p \in Slots, room \in Range(rooms) :
             (~move_player(p, room))
             \/ (Adjacent(p, room) /\ current_room'[p] = room)]_vars

\* C13 witness: a player has moved into a room that has no edges while
\* another player has no location.
C13_Witness ==
    \E p, q \in Slots :
        /\ current_room[p] # None
        /\ current_room[p] # start_room[character[p]]
        /\ current_room[p] \notin DOMAIN adjacency
        /\ current_room[q] = None

\* the number of cards dealt: the universe minus the three solution cards
Remaining == Len(all_cards) - Len(solution)

\* C14: every hand has floor(remaining / n) or ceil(remaining / n) cards, so
\* two hands differ in size by at most one.
C14_BalancedDeal ==
    /\ \A p \in Slots :
          Len(hand[p]) \in {Remaining \div n, (Remaining + n - 1) \div n}
    /\ \A p, q \in Slots : Len(hand[p]) - Len(hand[q]) <= 1

\* C14 witness: the deal did not come out even: one hand has the floor and
\* another the ceiling.
C14_Witness ==
    /\ Remaining % n # 0
    /\ \E p, q \in Slots :
          /\ Len(hand[p]) = Remaining \div n
          /\ Len(hand[q]) = (Remaining \div n) + 1

\* one of the three cards is in none of the lists handed to GameEngine
OutsideUniverse(su, w, r) ==
    su \notin Range(suspects) \/ w \notin Range(weapons) \/ r \notin Range(rooms)

\* C15: a handle_suggestion or handle_accusation call whose suspect, weapon
\* or room is not part of the configured universe leaves the whole engine
\* state unchanged (no owner entry added or changed, no record appended, no
\* active flag changed).
C15_ForeignCardRejected ==
    [][\A su \in AnyOf(suspects), w \in AnyOf(weapons), r \in AnyOf(rooms) :
          (/\ OutsideUniverse(su, w, r)
           /\ \/ \E s \in Range(player_order) : handle_suggestion(s, su, w, r)
              \/ \E p \in Slots : handle_accusation(p, su, w, r))
          => UNCHANGED vars]_vars

\* C16: GameEngine(...) produces no instance when the suspect list, the
\* weapon list or the room mapping is empty, or the player list is empty.
C16_EmptyInputRejected ==
    [][\A cfg \in Configurations :
          (\/ cfg.suspects = <<>>
           \/ cfg.weapons = <<>>
           \/ cfg.rooms = <<>>
           \/ cfg.player_names = <<>>) => ~Construct(cfg)]_vars

\* the list names one identity twice
HasDuplicate(names) ==
    \E i, j \in 1 .. Len(names) : i # j /\ names[i] = names[j]

\* C17: GameEngine(...) produces no instance when the player list contains
\* the same identity twice.
C17_DuplicateRejected ==
    [][\A cfg \in Configurations :
          HasDuplicate(cfg.player_names) => ~Construct(cfg)]_vars

\* C18: when a suggestion is handled and the first player in walk order
\* after the suggester who holds a suggested card has a false active flag,
\* that player is the record's refuter, the shown card is a suggested card
\* of that player's hand and its possible-owner set becomes that player.
C18_InactiveRefutes ==
    [][Len(suggestions') = Len(suggestions) + 1 =>
          LET rec == suggestions'[Len(suggestions')]
              idx == IndexOf(rec.suggester)
          IN \A offset \in 1 .. (n - 1) :
                LET p == (idx + offset) % n
                IN (/\ ~active[p]
                    /\ Holds(p, Triple(rec))
                    /\ \A earlier \in 1 .. (offset - 1) :
                          ~Holds((idx + earlier) % n, Triple(rec)))
                   => /\ rec.refuter = NameOf(p)
                      /\ rec.shown_card \in Triple(rec) \cap Range(hand[p])
                      /\ possible_owners'[rec.shown_card] = {NameOf(p)}]_vars

\* C18 witness: the history names a refuter whose active flag is false while
\* the suggester's is true.
C18_Witness ==
    /\ suggestions # <<>>
    /\ LastRecord.refuter # None
    /\ ~active[IndexOf(LastRecord.refuter)]
    /\ active[IndexOf(LastRecord.suggester)]

\* C19: no step (move, suggestion, accusation or advance) changes the
\* solution or any player's hand: no card is added, removed or reordered.
C19_SolutionAndHandsFixed ==
    [][solution' = solution /\ hand' = hand]_vars

\* C19 witness: the solution and the hands are looked at after a refuted
\* suggestion, a move, an incorrect and a correct accusation and an advance.
C19_Witness ==
    /\ suggestions # <<>>
    /\ LastRecord.shown_card # None
    /\ game_over
    /\ winner # None
    /\ SomeInactive
    /\ current_player_index # 0
    /\ \E p \in Slots : character[p] # None /\ current_room[p] # start_room[character[p]]

C21_GameOverOneWay ==
    /\ ~game_over
    /\ [][game_over => game_over']_vars

\* C21 witness: the game is over by a correct accusation and the turn has
\* been advanced, a player moved and a suggestion handled as well.
C21_Witness ==
    /\ game_over
    /\ winner # None
    /\ current_player_index # 0
    /\ suggestions # <<>>
    /\ \E p \in Slots : character[p] # None /\ current_room[p] # start_room[character[p]]

\* C22: a correct handle_accusation changes nothing but game_over and
\* winner; an incorrect one changes nothing but the accuser's active flag
\* (turn index, other players' flags, rooms, possible-owner sets and history
\* stay as they were). Steps that change nothing at all need no look.
C22_AccusationFrame ==
    [][UNCHANGED vars \/ \A p \in Slots :
          /\ \/ ~handle_accusation(p, solution[1], solution[2], solution[3])
             \/ UNCHANGED <<solution, character, hand, current_room, active,
                            possible_owners, suggestions, current_player_index>>
          /\ \A su \in Range(suspects), w \in Range(weapons), r \in Range(rooms) :
                \/ su = solution[1] /\ w = solution[2] /\ r = solution[3]
                \/ ~handle_accusation(p, su, w, r)
                \/ /\ UNCHANGED <<solution, character, hand, current_room,
                                  possible_owners, suggestions,
                                  current_player_index, game_over, winner>>
                   /\ \A q \in Slots \ {p} : active'[q] = active[q]]_vars

\* C22 witness: after a suggestion, a move and an advance, one player has
\* accused incorrectly and another one correctly.
C22_Witness ==
    /\ winner # None
    /\ \E p \in Slots : ~active[p] /\ NameOf(p) # winner
    /\ \E q \in Slots : active[q] /\ NameOf(q) # winner
    /\ suggestions # <<>>
    /\ current_player_index # 0
    /\ \E p \in Slots : character[p] # None /\ current_room[p] # start_room[character[p]]

\* C23: from every index and under every combination of flags the loop of
\* next_player returns after at most n runs of its body; the turn index is
\* always a slot 0..n-1; with every player inactive next_player returns
\* after exactly one full circuit, on the index it started from, with
\* game_over set.
C23_AdvanceTerminates ==
    /\ [](/\ current_player_index \in Slots
          /\ \A i \in Slots :
                LET r == NextLoop(i, i)
                IN /\ r.steps \in 1 .. n
                   /\ r.index \in Slots
                   /\ AllInactive => (r.over /\ r.index = i /\ r.steps = n))
    /\ [][(AllInactive /\ next_player) =>
             (game_over' /\ current_player_index' = current_player_index)]_vars

\* C23 witness: every player is inactive and the game has ended without a
\* winner, the turn standing on a slot other than the first.
C23_Witness ==
    /\ AllInactive
    /\ game_over
    /\ winner = None
    /\ current_player_index # 0

\* C24: a step that records a refuted suggestion changes the possible-owner
\* set of the shown card only (not those of the other suggested cards, of
\* cards outside the suggestion or of cards held by later players); no
\* step that records a suggestion changes the turn index, game_over, winner,
\* an active flag or a room.
C24_SuggestionFrame ==
    [][Len(suggestions') = Len(suggestions) + 1 =>
          LET rec == suggestions'[Len(suggestions')]
          IN /\ rec.refuter # None =>
                   /\ DOMAIN possible_owners' = DOMAIN possible_owners
                   /\ \A card \in DOMAIN possible_owners \ {rec.shown_card} :
                         possible_owners'[card] = possible_owners[card]
             /\ UNCHANGED <<current_player_index, game_over, winner, active,
                            current_room>>]_vars

\* C24 witness: a refuted suggestion is on record that a later player in
\* the walk could have refuted as well, and two of its cards still have the
\* set they were seeded with.
C24_Witness ==
    /\ suggestions # <<>>
    /\ LastRecord.refuter # None
    /\ Cardinality({p \in Slots \ {IndexOf(LastRecord.suggester)} :
                       Holds(p, Triple(LastRecord))}) >= 2
    /\ \A card \in Triple(LastRecord) \ {LastRecord.shown_card} :
          possible_owners[card] = Range(player_order) \cup {CaseFile}

\* the set every card is seeded with: set(player_names + ["CaseFile"])
SeedSet == Range(player_order) \cup {CaseFile}

\* C25: every card of the universe has a possible-owner set, and it is the
\* seed set, the singleton of one player's name or {"CaseFile"} (so never
\* empty); while no suggestion has been handled every card has the seed set.
C25_OwnerSetShapes ==
    /\ Range(all_cards) \subseteq DOMAIN possible_owners
    /\ \A card \in Range(all_cards) :
          /\ possible_owners[card] # {}
          /\ \/ possible_owners[card] = SeedSet
             \/ \E name \in Range(player_order) : possible_owners[card] = {name}
             \/ possible_owners[card] = {CaseFile}
          /\ suggestions = <<>> => possible_owners[card] = SeedSet

\* C25 witness: after a refuted suggestion one card has the singleton of a
\* player's name while the other cards still have the seed set.
C25_Witness ==
    /\ \E card \in Range(all_cards), name \in Range(player_order) :
          possible_owners[card] = {name}
    /\ \E card \in Range(all_cards) : possible_owners[card] = SeedSet

\* the turn index after k calls of next_player in a row from index i, the
\* flags staying as they are
RECURSIVE AfterAdvances(_, _)
AfterAdvances(i, k) ==
    IF k = 0 THEN i ELSE AfterAdvances(NextLoop(i, i).index, k - 1)

ActiveSlots == {p \in Slots : active[p]}

\* C26: while some player is active, n calls of next_player in a row make
\* every active player the current player at least once; each call stops on
\* the first active player after the current one in seating order
\* (wrapping) and does not set game_over; with exactly one active player
\* every call returns that player.
C26_NoStarvation ==
    /\ [](ActiveSlots # {} =>
            LET i == current_player_index
                r == NextLoop(i, i)
            IN /\ \A p \in ActiveSlots : \E k \in 1 .. n : AfterAdvances(i, k) = p
               /\ \E offset \in 1 .. n :
                     /\ r.index = (i + offset) % n
                     /\ active[r.index]
                     /\ \A earlier \in 1 .. (offset - 1) : ~active[(i + earlier) % n]
               /\ ~r.over
               /\ \A q \in Slots : ActiveSlots = {q} => r.index = q)
    /\ [][(ActiveSlots # {} /\ next_player) =>
             /\ active'[current_player_index']
             /\ game_over' = game_over]_vars

\* C26 witness: exactly one player is still active, and the turn has been
\* advanced onto that player.
C26_Witness ==
    /\ Cardinality(ActiveSlots) = 1
    /\ active[current_player_index]
    /\ current_player_index # 0
    /\ ~game_over

\* C27: whenever a card's possible-owner set is the singleton of a player's
\* name, the card is in that player's hand and is not a solution card.
C27_PlayerSingletonSound ==
    \A card \in Range(all_cards), p \in Slots :
        possible_owners[card] = {NameOf(p)} =>
            /\ card \in Range(hand[p])
            /\ card \notin Range(solution)

\* C27 witness: a refuted suggestion has left the singleton of the refuter
\* on the card it showed, and that refuter has since been eliminated.
C27_Witness ==
    /\ suggestions # <<>>
    /\ LastRecord.refuter # None
    /\ possible_owners[LastRecord.shown_card] = {LastRecord.refuter}
    /\ ~active[IndexOf(LastRecord.refuter)]
    /\ ~active[IndexOf(LastRecord.suggester)]

\* C28: in every record without a refuter each of the three suggested cards
\* is a solution card or a card of the suggester's hand; if the suggester
\* holds none of them the triple is the solution and an accusation with it
\* is correct.
C28_UnrefutedIsSolutionOrOwn ==
    \A k \in 1 .. Len(suggestions) :
        LET rec == suggestions[k]
            idx == IndexOf(rec.suggester)
        IN rec.refuter = None =>
              /\ \A card \in Triple(rec) :
                    card \in Range(solution) \/ card \in Range(hand[idx])
              /\ ~Holds(idx, Triple(rec)) =>
                    /\ <<rec.suspect, rec.weapon, rec.room>> = solution
                    /\ Correct(rec.suspect, rec.weapon, rec.room)

\* C28 witness: a record without a refuter whose suggester holds none of
\* the three cards, made by a player who holds a card.
C28_Witness ==
    \E k \in 1 .. Len(suggestions) :
        LET rec == suggestions[k]
            idx == IndexOf(rec.suggester)
        IN /\ rec.refuter = None
           /\ ~Holds(idx, Triple(rec))
           /\ hand[idx] # <<>>

\* C29: if winner is set, game_over is true and winner is the name of a
\* player; if game_over is true and winner is not set, every player is
\* inactive.
C29_OutcomeConsistent ==
    /\ winner # None => (game_over /\ winner \in Range(player_order))
    /\ (game_over /\ winner = None) => AllInactive

\* C29 witness: the game has ended by total elimination, after a suggestion
\* and a move.
C29_Witness ==
    /\ game_over
    /\ winner = None
    /\ AllInactive
    /\ suggestions # <<>>
    /\ \E p \in Slots : character[p] # None /\ current_room[p] # start_room[character[p]]

TypeOK ==
    /\ solution \in choose_solution
    /\ current_player_index \in Slots
    /\ game_over \in BOOLEAN
    /\ winner \in Range(player_order) \cup {None}
    /\ Len(suggestions) <= MaxSuggestionsDeep

====
